---- MODULE Spec2Model ----
(***************************************************************************)
(* Model of run_crawl.py: the SRU discovery walk, the checkpoint file, the *)
(* per-identifier content fetch, and the batch push / checkpoint commit    *)
(* loop of main(), over a sequence of runs of the script.                  *)
(*                                                                         *)
(* A CELEX identifier is a positive number; the numeric order             *)
(* stands for the string order sorted() uses.  A catalog entry is the      *)
(* identifier in its dcterms:isPartOf element, or 0 when the element is    *)
(* missing or empty.  A Record is represented by the identifier its URL is *)
(* built from.                                                             *)
(*                                                                         *)
(* Spec is the script run several times, with kills; SpecRun is one run    *)
(* under fairness; SpecDiscovery is fetch_sru_records alone; SpecFetch is  *)
(* one call of fetch_eurlex_content followed request by request.           *)
(***************************************************************************)
EXTENDS Integers, Sequences, FiniteSets, TLC

\* ---- sizes: the script's constants, scaled down ----
\* BATCH_SIZE (200 in the script), line 15
BATCH_SIZE == 2
\* GLOBAL_RUN_LIMIT (2000 in the script), line 16
GLOBAL_RUN_LIMIT == 3
\* the page size, the literal 100 of line 66
PAGE_SIZE == 2
\* the literal 50 of line 181
MIN_CONTENT_LEN == 50
\* RETRY_ATTEMPTS, line 18
RETRY_ATTEMPTS == 3
\* number of runs of the script in a behaviour
MaxRuns == 2
\* the discovery specification: number of identifiers of its catalogs,
\* longest catalog, largest limit given to fetch_sru_records
NumIds == 2
MaxCatalogLen == 6
MaxLimit == 5

IdUniverse == 1..GLOBAL_RUN_LIMIT

VARIABLES
    \* the world outside the process
    catalog,            \* the SRU catalog: sequence of entries (0 = no identifier)
    file,               \* CHECKPOINT_FILE: [kind: missing | corrupt | json, ids]
    sink,               \* rows of the train split of HF_DATASET_REPO
    limit,              \* the limit argument of fetch_sru_records
    \* the process
    run,                \* number of the current run
    pc,                 \* position of main()
    existing_dataset,   \* [some, rows]: None or the loaded / last pushed dataset
    processed_celex,    \* main's processed_celex
    celex_found,        \* fetch_sru_records: celex_found
    total_processed,    \* fetch_sru_records: total_processed
    current,            \* fetch_sru_records: current
    celex_to_process,   \* main's celex_to_process
    i,                  \* start of the current batch (0-based, as range() gives it)
    j,                  \* identifiers of the current batch already fetched
    batch_data,         \* main's batch_data
    \* history of the current run
    requests,           \* page requests issued: [startRecord, maximumRecords, returned]
    pageError,          \* a page request raised
    noTotal,            \* a page carried no numberOfRecords element
    loadedAtStart,      \* what load_processed_celex returned
    pushedOk,           \* identifiers of the batches whose push succeeded
    pushFailedIds,      \* identifiers of the batch whose push failed
    committedIds,       \* identifiers of delivered batches written by a save
    saveFailed,         \* a checkpoint write failed
    fetchLog,           \* identifiers given to fetch_eurlex_content, in order
    skipped,            \* identifiers whose fetch gave no Record
    ending,             \* how the run ended ("running" until it does)
    \* history across runs
    deliveries,         \* per identifier, the number of times it was delivered
    committedBefore,    \* identifiers of delivered batches that a save of an
                        \* earlier run wrote to the checkpoint
    prev,               \* the previous run: was it terminated, did it finish clean
    \* one call of fetch_eurlex_content, step by step
    endpoint,           \* the content endpoint: [fail: per attempt, does the
                        \* request fail; len: length of the text of the page;
                        \* parses: does strip_html return]
    fpc,                \* position in fetch_eurlex_content
    attempt,            \* get_with_retries: attempt
    wire,               \* what the call did so far: "get" and "sleep" (RETRY_DELAY)
    result              \* what fetch_eurlex_content returned

world == <<catalog, file, sink, limit>>
proc == <<run, pc, existing_dataset, processed_celex, celex_found, total_processed,
          current, celex_to_process, i, j, batch_data>>
hist == <<requests, pageError, noTotal, loadedAtStart, pushedOk, pushFailedIds,
          committedIds, saveFailed, fetchLog, skipped, ending>>
hist_but_ending == <<requests, pageError, noTotal, loadedAtStart, pushedOk, pushFailedIds,
                     committedIds, saveFailed, fetchLog, skipped>>
across == <<deliveries, committedBefore, prev>>
fetching == <<endpoint, fpc, attempt, wire, result>>
vars == <<world, proc, hist, across, fetching>>

\* ---- helpers ----
Min(a, b) == IF a < b THEN a ELSE b
Range(s) == {s[k] : k \in 1..Len(s)}

RECURSIVE SortedList(_)
\* sorted(list(S))
SortedList(S) ==
    IF S = {} THEN <<>>
    ELSE LET m == CHOOSE x \in S : \A y \in S : x <= y
         IN <<m>> \o SortedList(S \ {m})

\* ---- the checkpoint file ----
Missing == [kind |-> "missing", ids |-> {}]
Corrupt == [kind |-> "corrupt", ids |-> {}]
JsonFile(S) == [kind |-> "json", ids |-> S]

\* load_processed_celex
load_processed_celex(f) == IF f.kind = "json" THEN f.ids ELSE {}

\* what the next load of the checkpoint file gives
PersistedSet == load_processed_celex(file)

\* ---- the dataset ----
None == [some |-> FALSE, rows |-> <<>>]
Some(rows) == [some |-> TRUE, rows |-> rows]

\* push_batch_to_hf: the combined dataset
Combined(existing, data) ==
    IF existing.some /\ existing.rows # <<>> THEN existing.rows \o data ELSE data

\* ---- the SRU server ----
\* the records of the catalog from startRecord on, at most maximumRecords of them
ServerPage(startRecord, maximumRecords) ==
    SubSeq(catalog, startRecord, Min(startRecord + maximumRecords - 1, Len(catalog)))

\* ---- fetch_sru_records ----
\* MaximumRecords asking for a whole page whatever is left of the limit
MaximumRecordsWholePage(lim, total) == PAGE_SIZE

\* "maximumRecords": min(100, limit - total_processed)
MaximumRecords(lim, total) == Min(PAGE_SIZE, lim - total)

\* the identifiers of the records that have a non-empty dcterms:isPartOf
ExtractCelex(records) == Range(records) \ {0}

\* WalkEnds with >= for >
WalkEndsOneEarly(next_start, hasTotal, numberOfRecords) ==
    ~hasTotal \/ next_start >= numberOfRecords

\* if num_records_elem is None or next_start > int(num_records_elem.text): break
WalkEnds(next_start, hasTotal, numberOfRecords) ==
    ~hasTotal \/ next_start > numberOfRecords

\* NextStart counting from one past the last record
NextStartSkipsOne(cur, n) == cur + n + 1

\* next_start = current + len(records)
NextStart(cur, n) == cur + n

\* lines 88-90 after lines 70-72 raised (connection, timeout, HTTP status,
\* XML parse): the loop is left and what was found so far is returned
PageRaises ==
    /\ pageError' = TRUE
    /\ pc' = "harvested"
    /\ UNCHANGED <<celex_found, total_processed, current, noTotal>>

\* lines 74-76: the page has no record
PageEmpty ==
    /\ pc' = "harvested"
    /\ UNCHANGED <<celex_found, total_processed, current, noTotal, pageError>>

\* lines 77-84 and 88-90: the page has records and a numberOfRecords element
\* whose text int() rejects (empty, or no integer): the identifiers of the
\* page are added and its records counted, then line 84 raises and the
\* except leaves the loop
PageBadTotal(records) ==
    /\ celex_found' = celex_found \cup ExtractCelex(records)
    /\ total_processed' = total_processed + Len(records)
    /\ pageError' = TRUE
    /\ pc' = "harvested"
    /\ UNCHANGED <<current, noTotal>>

\* lines 77-87: the page has records
PageRecords(records, hasTotal) ==
    /\ celex_found' = celex_found \cup ExtractCelex(records)
    /\ total_processed' = total_processed + Len(records)
    /\ noTotal' = (noTotal \/ ~hasTotal)
    /\ IF WalkEnds(NextStart(current, Len(records)), hasTotal, Len(catalog))
       THEN /\ pc' = "harvested"
            /\ UNCHANGED current
       ELSE /\ current' = NextStart(current, Len(records))
            /\ pc' = IF total_processed + Len(records) < limit
                     THEN "discover" ELSE "harvested"
    /\ UNCHANGED pageError

\* what a page request can meet: "ok", "error" (requests.get,
\* raise_for_status or etree.fromstring raise), "nototal" (a response without
\* a numberOfRecords element), "badtotal" (a response whose numberOfRecords
\* element is empty or no integer)
Responses == {"ok", "error", "nototal", "badtotal"}

\* one iteration of the while loop; resp is what the request meets
SruPage(resp) ==
    /\ pc = "discover"
    /\ total_processed < limit
    /\ LET maxRec == MaximumRecords(limit, total_processed)
           records == ServerPage(current, maxRec)
       IN  /\ requests' = Append(requests,
                  [startRecord |-> current, maximumRecords |-> maxRec,
                   returned |-> IF resp = "error" THEN 0 ELSE Len(records)])
           /\ CASE resp = "error" -> PageRaises
                [] resp # "error" /\ records = <<>> -> PageEmpty
                [] resp = "badtotal" /\ records # <<>> -> PageBadTotal(records)
                [] resp \in {"ok", "nototal"} /\ records # <<>> ->
                       PageRecords(records, resp = "ok")
    /\ UNCHANGED <<world, run, existing_dataset, processed_celex, celex_to_process, i, j,
                   batch_data, loadedAtStart, pushedOk, pushFailedIds, committedIds,
                   saveFailed, fetchLog, skipped, ending, across, fetching>>

\* return sorted(list(celex_found))
all_celex == SortedList(celex_found)

\* ---- main ----
\* ToProcess without the filter on processed_celex
ToProcessUnfiltered(all, processed) ==
    IF Len(all) > GLOBAL_RUN_LIMIT THEN SubSeq(all, 1, GLOBAL_RUN_LIMIT) ELSE all

\* [c for c in all_celex if c not in processed_celex], cut to GLOBAL_RUN_LIMIT
ToProcess(all, processed) ==
    LET new == SelectSeq(all, LAMBDA c : c \notin processed)
    IN  IF Len(new) > GLOBAL_RUN_LIMIT THEN SubSeq(new, 1, GLOBAL_RUN_LIMIT) ELSE new

\* BatchAt with the slice one too long
BatchAtOneMore(list, k) == SubSeq(list, k + 1, Min(k + BATCH_SIZE + 1, Len(list)))

\* batch = celex_to_process[i:i + BATCH_SIZE]
BatchAt(list, k) == SubSeq(list, k + 1, Min(k + BATCH_SIZE, Len(list)))

batch == BatchAt(celex_to_process, i)

\* Accepted with a text of exactly 50 characters accepted too
AcceptedFrom50(content) == content.ok /\ content.len > 0 /\ content.len >= MIN_CONTENT_LEN

\* if content and len(content) > 50
Accepted(content) == content.ok /\ content.len > 0 /\ content.len > MIN_CONTENT_LEN

\* what fetch_eurlex_content can return: None, or a text of some length
ContentLengths == {0, 40, 50, 51, 60}
Contents == {[ok |-> FALSE, len |-> 0]} \cup {[ok |-> TRUE, len |-> n] : n \in ContentLengths}

\* ---- fetch_eurlex_content, get_with_retries, strip_html ----
\* None, and a text of n characters
NoContent == [ok |-> FALSE, len |-> 0]
Text(n) == [ok |-> TRUE, len |-> n]

\* the content endpoints: which of the RETRY_ATTEMPTS requests fail, the
\* length of the text of the page, whether strip_html returns or raises
Endpoints ==
    {[fail |-> f, len |-> n, parses |-> p] :
        f \in [1..RETRY_ATTEMPTS -> BOOLEAN], n \in ContentLengths, p \in BOOLEAN}

\* RetryLeft with a wait after the last attempt too
RetryLeftAlways(a) == a < RETRY_ATTEMPTS

\* line 103: if attempt < RETRY_ATTEMPTS - 1
RetryLeft(a) == a < RETRY_ATTEMPTS - 1

\* get_with_retries: one iteration of "for attempt in range(RETRY_ATTEMPTS)".
\* The request fails (RequestException: print, sleep RETRY_DELAY unless this
\* was the last attempt; after the last the function returns None, and so
\* does fetch_eurlex_content, lines 106-107 and 116-117) or it returns r.
Attempt ==
    /\ fpc = "get"
    /\ attempt < RETRY_ATTEMPTS
    /\ IF endpoint.fail[attempt + 1]
       THEN /\ wire' = wire \o (IF RetryLeft(attempt) THEN <<"get", "sleep">>
                                                       ELSE <<"get">>)
            /\ attempt' = attempt + 1
            /\ IF attempt + 1 < RETRY_ATTEMPTS
               THEN fpc' = "get" /\ UNCHANGED result
               ELSE fpc' = "returned" /\ result' = NoContent
       ELSE /\ wire' = Append(wire, "get")
            /\ fpc' = "strip"
            /\ UNCHANGED <<attempt, result>>
    /\ UNCHANGED <<endpoint, world, proc, hist, across>>

\* line 118: return strip_html(resp.text); BeautifulSoup returns the text or
\* raises, and nothing between line 111 and the top of main catches it
StripHtml ==
    /\ fpc = "strip"
    /\ IF endpoint.parses
       THEN fpc' = "returned" /\ result' = Text(endpoint.len)
       ELSE fpc' = "raised" /\ UNCHANGED result
    /\ UNCHANGED <<endpoint, attempt, wire, world, proc, hist, across>>

\* no call of fetch_eurlex_content is followed step by step
IdleEndpoint == [fail |-> [a \in 1..RETRY_ATTEMPTS |-> FALSE], len |-> 0, parses |-> TRUE]
FetchIdle ==
    /\ endpoint = IdleEndpoint
    /\ fpc = "idle"
    /\ attempt = 0
    /\ wire = <<>>
    /\ result = NoContent

\* Start with the exception of json.load leaving load_processed_celex, which
\* ends the run on a checkpoint file that is no JSON document
StartRaisesOnBadFile(tokenOk, loadOk) ==
    /\ pc = "start"
    /\ IF ~tokenOk \/ file.kind = "corrupt"
       THEN /\ pc' = "done"
            /\ ending' = IF ~tokenOk THEN "no_login" ELSE "crashed"
            /\ UNCHANGED <<existing_dataset, processed_celex, loadedAtStart>>
       ELSE /\ existing_dataset' = IF sink # <<>> /\ loadOk THEN Some(sink) ELSE None
            /\ processed_celex' = load_processed_celex(file)
            /\ loadedAtStart' = load_processed_celex(file)
            /\ pc' = "discover"
            /\ UNCHANGED ending
    /\ UNCHANGED <<world, run, celex_found, total_processed, current, celex_to_process,
                   i, j, batch_data, requests, pageError, noTotal, pushedOk,
                   pushFailedIds, committedIds, saveFailed, fetchLog, skipped,
                   across, fetching>>

\* lines 134-160: authentication, loading the dataset and the checkpoint
Start(tokenOk, loadOk) ==
    /\ pc = "start"
    /\ IF ~tokenOk
       THEN /\ pc' = "done"
            /\ ending' = "no_login"
            /\ UNCHANGED <<existing_dataset, processed_celex, loadedAtStart>>
       ELSE /\ existing_dataset' = IF sink # <<>> /\ loadOk THEN Some(sink) ELSE None
            /\ processed_celex' = load_processed_celex(file)
            /\ loadedAtStart' = load_processed_celex(file)
            /\ pc' = "discover"
            /\ UNCHANGED ending
    /\ UNCHANGED <<world, run, celex_found, total_processed, current, celex_to_process,
                   i, j, batch_data, requests, pageError, noTotal, pushedOk,
                   pushFailedIds, committedIds, saveFailed, fetchLog, skipped,
                   across, fetching>>

\* lines 163-171: the identifiers still to process
Harvest ==
    /\ pc = "harvested"
    /\ celex_to_process' = ToProcess(all_celex, processed_celex)
    /\ IF celex_to_process' = <<>>
       THEN pc' = "done" /\ ending' = "nothing_new"
       ELSE pc' = "fetch" /\ UNCHANGED ending
    /\ UNCHANGED <<world, run, existing_dataset, processed_celex, celex_found,
                   total_processed, current, i, j, batch_data, requests, pageError,
                   noTotal, loadedAtStart, pushedOk, pushFailedIds, committedIds,
                   saveFailed, fetchLog, skipped, across, fetching>>

\* lines 178-189: one iteration of "for celex in batch"
FetchOne(content) ==
    /\ pc = "fetch"
    /\ LET celex == batch[j + 1]
       IN  /\ fetchLog' = Append(fetchLog, celex)
           /\ IF Accepted(content)
              THEN batch_data' = Append(batch_data, celex) /\ UNCHANGED skipped
              ELSE skipped' = skipped \cup {celex} /\ UNCHANGED batch_data
    /\ j' = j + 1
    /\ pc' = IF j + 1 = Len(batch) THEN "push" ELSE "fetch"
    /\ UNCHANGED <<world, run, existing_dataset, processed_celex, celex_found,
                   total_processed, current, celex_to_process, i, requests, pageError,
                   noTotal, loadedAtStart, pushedOk, pushFailedIds, committedIds,
                   saveFailed, ending, across, fetching>>

\* line 180, fetch_eurlex_content raised (strip_html, line 111): the
\* exception leaves main, the process ends with a traceback
FetchRaises ==
    /\ pc = "fetch"
    /\ fetchLog' = Append(fetchLog, batch[j + 1])
    /\ pc' = "done"
    /\ ending' = "crashed"
    /\ UNCHANGED <<world, run, existing_dataset, processed_celex, celex_found,
                   total_processed, current, celex_to_process, i, j, batch_data,
                   requests, pageError, noTotal, loadedAtStart, pushedOk,
                   pushFailedIds, committedIds, saveFailed, skipped, across, fetching>>

\* the for loop of line 174 moves to the next batch, or main ends (line 203)
NextBatch ==
    IF i + BATCH_SIZE < Len(celex_to_process)
    THEN /\ i' = i + BATCH_SIZE
         /\ j' = 0
         /\ batch_data' = <<>>
         /\ pc' = "fetch"
         /\ UNCHANGED ending
    ELSE /\ pc' = "done"
         /\ ending' = "finished"
         /\ UNCHANGED <<i, j, batch_data>>

\* lines 190-192: a batch without data is not pushed
SkipPush ==
    /\ pc = "push"
    /\ batch_data = <<>>
    /\ NextBatch
    /\ UNCHANGED <<world, run, existing_dataset, processed_celex, celex_found,
                   total_processed, current, celex_to_process, hist_but_ending,
                   across, fetching>>

\* lines 193-196: push_batch_to_hf returned; the batch is marked processed
PushSucceeds ==
    /\ sink' = Combined(existing_dataset, batch_data)
    /\ existing_dataset' = Some(Combined(existing_dataset, batch_data))
    /\ processed_celex' = processed_celex \cup Range(batch)
    /\ pushedOk' = pushedOk \cup Range(batch)
    /\ deliveries' = [c \in IdUniverse |->
                        IF c \in Range(batch_data) THEN deliveries[c] + 1 ELSE deliveries[c]]
    /\ pc' = "save_open"
    /\ UNCHANGED <<file, pushFailedIds, ending>>

\* PushFails with the batch marked processed and saved although the push raised
PushFailsButCommits ==
    /\ pushFailedIds' = Range(batch)
    /\ processed_celex' = processed_celex \cup Range(batch)
    /\ file' = JsonFile(processed_celex \cup Range(batch))
    /\ pc' = "done"
    /\ ending' = "push_failed"
    /\ UNCHANGED <<sink, existing_dataset, pushedOk, deliveries>>

\* PushFails with the failure swallowed: the run goes on to the checkpoint
\* write and the next batch
PushFailsAndGoesOn ==
    /\ pushFailedIds' = Range(batch)
    /\ pc' = "save_open"
    /\ UNCHANGED <<file, sink, existing_dataset, processed_celex, pushedOk, deliveries,
                   ending>>

\* lines 199-202: push_batch_to_hf raised; the loop is left
PushFails ==
    /\ pushFailedIds' = Range(batch)
    /\ pc' = "done"
    /\ ending' = "push_failed"
    /\ UNCHANGED <<file, sink, existing_dataset, processed_celex, pushedOk, deliveries>>

\* lines 193-202
PushBatch(ok) ==
    /\ pc = "push"
    /\ batch_data # <<>>
    /\ IF ok THEN PushSucceeds ELSE PushFails
    /\ UNCHANGED <<catalog, limit, run, celex_found, total_processed, current,
                   celex_to_process, i, j, batch_data, requests, pageError, noTotal, loadedAtStart,
                   committedIds, saveFailed, fetchLog, skipped, committedBefore, prev,
                   fetching>>

\* save_processed_celex, line 39: open(CHECKPOINT_FILE, 'w') empties the file,
\* or raises and leaves it as it was; the exception is caught and printed
SaveOpen(ok) ==
    /\ pc = "save_open"
    /\ IF ok
       THEN /\ file' = Corrupt
            /\ pc' = "save_dump"
            /\ UNCHANGED <<i, j, batch_data, ending, saveFailed>>
       ELSE /\ saveFailed' = TRUE
            /\ NextBatch
            /\ UNCHANGED file
    /\ UNCHANGED <<catalog, sink, limit, run, existing_dataset, processed_celex, celex_found,
                   total_processed, current, celex_to_process, requests, pageError,
                   noTotal, loadedAtStart, pushedOk, pushFailedIds, committedIds,
                   fetchLog, skipped, across, fetching>>

\* save_processed_celex, line 40: json.dump writes the whole list, or raises
\* part-way and leaves a file that is no JSON document
SaveDump(ok) ==
    /\ pc = "save_dump"
    /\ IF ok
       THEN /\ file' = JsonFile(processed_celex)
            /\ committedIds' = pushedOk
            /\ UNCHANGED saveFailed
       ELSE /\ file' = Corrupt
            /\ saveFailed' = TRUE
            /\ UNCHANGED committedIds
    /\ NextBatch
    /\ UNCHANGED <<catalog, sink, limit, run, existing_dataset, processed_celex, celex_found,
                   total_processed, current, celex_to_process, requests, pageError,
                   noTotal, loadedAtStart, pushedOk, pushFailedIds, fetchLog, skipped,
                   across, fetching>>

\* the state of a process that has just been started
Fresh ==
    /\ pc = "start"
    /\ existing_dataset = None
    /\ processed_celex = {}
    /\ celex_found = {}
    /\ total_processed = 0
    /\ current = 1
    /\ celex_to_process = <<>>
    /\ i = 0
    /\ j = 0
    /\ batch_data = <<>>
    /\ requests = <<>>
    /\ pageError = FALSE
    /\ noTotal = FALSE
    /\ loadedAtStart = {}
    /\ pushedOk = {}
    /\ pushFailedIds = {}
    /\ committedIds = {}
    /\ saveFailed = FALSE
    /\ fetchLog = <<>>
    /\ skipped = {}
    /\ ending = "running"

\* the script is started again after a run that ended as `how`
NewRun(how) ==
    /\ run < MaxRuns
    /\ run' = run + 1
    /\ committedBefore' = committedBefore \cup committedIds
    /\ prev' = [killed |-> how = "killed",
                clean |-> how = "finished" /\ ~saveFailed /\ ~pageError /\ ~noTotal]
    /\ pc' = "start"
    /\ existing_dataset' = None
    /\ processed_celex' = {}
    /\ celex_found' = {}
    /\ total_processed' = 0
    /\ current' = 1
    /\ celex_to_process' = <<>>
    /\ i' = 0
    /\ j' = 0
    /\ batch_data' = <<>>
    /\ requests' = <<>>
    /\ pageError' = FALSE
    /\ noTotal' = FALSE
    /\ loadedAtStart' = {}
    /\ pushedOk' = {}
    /\ pushFailedIds' = {}
    /\ committedIds' = {}
    /\ saveFailed' = FALSE
    /\ fetchLog' = <<>>
    /\ skipped' = {}
    /\ ending' = "running"
    /\ UNCHANGED <<world, deliveries, fetching>>

\* the process is terminated from outside, wherever main is (also in lines
\* 135-160, and in the prints after the last state change, before the
\* process has exited), and the script is run again later
Terminate ==
    /\ pc \in {"start", "discover", "harvested", "fetch", "push", "save_open", "save_dump",
               "done"}
    /\ NewRun("killed")

\* the script is run again after main returned
Restart ==
    /\ pc = "done"
    /\ NewRun(ending)

\* lines 205-206: the exit status of the process whose main ended as e.
\* main returns normally from every branch (there is no sys.exit and no
\* re-raise); only an exception that leaves main gives a non-zero status
ExitStatus(e) == IF e = "crashed" THEN 1 ELSE 0

NoPrev == [killed |-> FALSE, clean |-> FALSE]

\* catalogs of distinct identifiers, up to what one run can count, and two
\* catalogs that list identifier 1 twice: in adjacent entries, and in the
\* first and the last entry
Catalogs ==
    {[k \in 1..n |-> k] : n \in 0..GLOBAL_RUN_LIMIT}
        \cup {[k \in 1..GLOBAL_RUN_LIMIT |-> IF k = 1 THEN 1 ELSE k - 1],
              [k \in 1..GLOBAL_RUN_LIMIT |-> IF k = GLOBAL_RUN_LIMIT THEN 1 ELSE k]}

Init ==
    /\ catalog \in Catalogs
    /\ limit = GLOBAL_RUN_LIMIT
    /\ file = Missing
    /\ sink = <<>>
    /\ run = 1
    /\ Fresh
    /\ deliveries = [c \in IdUniverse |-> 0]
    /\ committedBefore = {}
    /\ prev = NoPrev
    /\ FetchIdle

Next ==
    \/ \E tokenOk, loadOk \in BOOLEAN : Start(tokenOk, loadOk)
    \/ \E resp \in Responses : SruPage(resp)
    \/ Harvest
    \/ \E content \in Contents : FetchOne(content)
    \/ FetchRaises
    \/ SkipPush
    \/ \E ok \in BOOLEAN : PushBatch(ok)
    \/ \E ok \in BOOLEAN : SaveOpen(ok)
    \/ \E ok \in BOOLEAN : SaveDump(ok)
    \/ Terminate
    \/ Restart

Spec == Init /\ [][Next]_vars

\* ---- fetch_sru_records alone: any catalog, any limit ----
RECURSIVE SeqsUpTo(_, _)
\* the sequences over S of length at most n
SeqsUpTo(S, n) ==
    IF n = 0 THEN {<<>>}
    ELSE LET shorter == SeqsUpTo(S, n - 1)
         IN  shorter \cup {Append(q, x) : q \in {r \in shorter : Len(r) = n - 1}, x \in S}

DiscoveryCatalogs == SeqsUpTo(0..NumIds, MaxCatalogLen)

\* main has reached the call of fetch_sru_records in its first run
InitDiscovery ==
    /\ catalog \in DiscoveryCatalogs
    /\ limit \in 1..MaxLimit
    /\ file = Missing
    /\ sink = <<>>
    /\ run = 1
    /\ pc = "discover"
    /\ existing_dataset = None
    /\ processed_celex = {}
    /\ celex_found = {}
    /\ total_processed = 0
    /\ current = 1
    /\ celex_to_process = <<>>
    /\ i = 0
    /\ j = 0
    /\ batch_data = <<>>
    /\ requests = <<>>
    /\ pageError = FALSE
    /\ noTotal = FALSE
    /\ loadedAtStart = {}
    /\ pushedOk = {}
    /\ pushFailedIds = {}
    /\ committedIds = {}
    /\ saveFailed = FALSE
    /\ fetchLog = <<>>
    /\ skipped = {}
    /\ ending = "running"
    /\ deliveries = [c \in IdUniverse |-> 0]
    /\ committedBefore = {}
    /\ prev = NoPrev
    /\ FetchIdle

NextDiscovery == \E resp \in Responses : SruPage(resp)

SpecDiscovery == InitDiscovery /\ [][NextDiscovery]_vars

\* ---- one run of the script, from its start to the end of main ----
\* a catalog with more entries than one run counts
LongCatalog == [k \in 1..(2 * GLOBAL_RUN_LIMIT) |-> ((k - 1) % GLOBAL_RUN_LIMIT) + 1]

\* the checkpoint files a run can find
Checkpoints == {Missing, Corrupt, JsonFile({1})}

InitRun ==
    /\ catalog \in Catalogs \cup {LongCatalog}
    /\ limit = GLOBAL_RUN_LIMIT
    /\ file \in Checkpoints
    /\ sink = <<>>
    /\ run = 1
    /\ Fresh
    /\ deliveries = [c \in IdUniverse |-> 0]
    /\ committedBefore = {}
    /\ prev = NoPrev
    /\ FetchIdle

\* the steps of main
NextRun ==
    \/ \E tokenOk, loadOk \in BOOLEAN : Start(tokenOk, loadOk)
    \/ \E resp \in Responses : SruPage(resp)
    \/ Harvest
    \/ \E content \in Contents : FetchOne(content)
    \/ FetchRaises
    \/ SkipPush
    \/ \E ok \in BOOLEAN : PushBatch(ok)
    \/ \E ok \in BOOLEAN : SaveOpen(ok)
    \/ \E ok \in BOOLEAN : SaveDump(ok)

\* main is one sequential thread whose calls block with a timeout or return
\* (requests.get has timeout=30): as long as main has a next step, it is
\* taken
SpecRun == InitRun /\ [][NextRun]_vars /\ WF_vars(NextRun)

\* ---- one identifier, its fetch followed step by step ----
\* main has discovered the catalog of the single identifier 1, nothing is in
\* the checkpoint, and line 180 calls fetch_eurlex_content
InitFetch ==
    /\ catalog = <<1>>
    /\ limit = GLOBAL_RUN_LIMIT
    /\ file = Missing
    /\ sink = <<>>
    /\ run = 1
    /\ pc = "fetch"
    /\ existing_dataset = None
    /\ processed_celex = {}
    /\ celex_found = {1}
    /\ total_processed = 1
    /\ current = 1
    /\ celex_to_process = <<1>>
    /\ i = 0
    /\ j = 0
    /\ batch_data = <<>>
    /\ requests = <<[startRecord |-> 1, maximumRecords |-> MaximumRecords(limit, 0),
                     returned |-> 1]>>
    /\ pageError = FALSE
    /\ noTotal = FALSE
    /\ loadedAtStart = {}
    /\ pushedOk = {}
    /\ pushFailedIds = {}
    /\ committedIds = {}
    /\ saveFailed = FALSE
    /\ fetchLog = <<>>
    /\ skipped = {}
    /\ ending = "running"
    /\ deliveries = [c \in IdUniverse |-> 0]
    /\ committedBefore = {}
    /\ prev = NoPrev
    /\ endpoint \in Endpoints
    /\ fpc = "get"
    /\ attempt = 0
    /\ wire = <<>>
    /\ result = NoContent

\* lines 180-189 with the content the call returned
FilterFetched == fpc = "returned" /\ FetchOne(result)

\* line 180 with the call raising
FetchCrashes == fpc = "raised" /\ FetchRaises

NextFetch == Attempt \/ StripHtml \/ FilterFetched \/ FetchCrashes

SpecFetch == InitFetch /\ [][NextFetch]_vars

\* ======================= the claims =======================

\* the run has loaded the checkpoint
Loaded == pc # "start" /\ ending # "no_login"

\* C1: in every state of a run that has loaded the checkpoint, the persisted
\* set is within the set loaded at start united with the identifiers of the
\* batches whose push succeeded, and no identifier of a batch whose push
\* failed is in the persisted set.
C1_CheckpointOnlyAfterPush ==
    Loaded =>
        /\ PersistedSet \subseteq (loadedAtStart \cup pushedOk)
        /\ pushFailedIds \cap PersistedSet = {}

\* a push failed after an earlier batch of the run was pushed and saved
C1_Witness ==
    /\ ending = "push_failed"
    /\ pushFailedIds # {}
    /\ pushedOk # {}
    /\ pushedOk \subseteq PersistedSet

\* C2: across the runs, no identifier's Record is delivered to the sink more
\* than once.
C2_NoDuplicateDelivery == \A c \in IdUniverse : deliveries[c] <= 1

\* C3: no Record is lost from the sink: after every successful push the sink
\* holds every Record it held before the push, and the batch's Records.
C3_PushKeepsSink ==
    [][(pc = "push" /\ pc' = "save_open")
         => (Range(sink) \cup Range(batch_data)) \subseteq Range(sink')]_vars

\* the run has walked the whole catalog and main has returned by itself
Completed ==
    /\ pc = "done"
    /\ ending \in {"finished", "nothing_new"}
    /\ ~pageError
    /\ ~noTotal

\* C4: a run started after a terminated run fetches no identifier of a batch
\* that an earlier run delivered and committed to the checkpoint, delivers no
\* Record of such a batch again, and, if it completes, has fetched exactly
\* the other identifiers of the catalog.
C4_CrashResume ==
    prev.killed =>
        /\ Range(fetchLog) \cap committedBefore = {}
        /\ Range(batch_data) \cap committedBefore = {}
        /\ Completed => Range(fetchLog) = ExtractCelex(catalog) \ committedBefore

\* C5: a run that starts from the checkpoint left by a run that completed
\* all its batches, with every checkpoint write done, delivers no Record.
C5_SecondRunDeliversNothing ==
    prev.clean => pushedOk = {}

\* the identifiers of the batches of this run that have been fully processed
ProcessedBatches ==
    IF pc = "done" /\ ending = "finished" THEN Range(celex_to_process)
    ELSE {celex_to_process[k] : k \in 1..i}

\* C6: an identifier whose fetch ended in Skip is in the persisted set once
\* its batch has been processed without a delivery failure (and without a
\* failed checkpoint write), also when the whole batch was skipped.
C6_SkippedAreResolved ==
    (pc \in {"fetch", "push", "done"} /\ ending \in {"running", "finished"} /\ ~saveFailed)
        => (skipped \cap ProcessedBatches) \subseteq PersistedSet

\* the identifiers of the pages read before the walk stopped
FoundSoFar == ExtractCelex(SubSeq(catalog, 1, total_processed))

\* C7: a page error is fatal to the walk and reaches the caller: after it no
\* identifier of the partial walk is fetched or delivered in that run.
C7_PageErrorIsFatal ==
    pageError => (fetchLog = <<>> /\ pushedOk = {})

\* what the code does instead (the divergence of C7): a page error stops the
\* walk, but it does not reach main: fetch_sru_records returns the
\* identifiers of the pages read before the error (with those of the failing
\* page itself when the error is in its total, raised after its records were
\* read), and the run goes on with those that are not in the checkpoint.
C7_PageErrorStopsWalk ==
    pageError =>
        /\ pc # "discover"
        /\ total_processed = requests[Len(requests)].startRecord - 1
                                + requests[Len(requests)].returned
        /\ celex_found = FoundSoFar
        /\ pc # "harvested" =>
              celex_to_process = ToProcess(SortedList(FoundSoFar), loadedAtStart)

\* identifiers of a walk cut short by a page error have been delivered
C7_Witness ==
    /\ pageError
    /\ Len(requests) >= 2
    /\ pushedOk # {}
    /\ Range(fetchLog) # ExtractCelex(catalog)

\* the last page request of the walk
LastRequest == requests[Len(requests)]

\* fetch_sru_records has returned from a walk without an error
WalkDone == pc = "harvested" /\ ~pageError

\* C8 as claimed: a walk without a page error ends only on an empty page or
\* with the next offset beyond the total, and has yielded every identifier
\* of the catalog.
C8_WalkYieldsAll ==
    WalkDone =>
        /\ \/ LastRequest.returned = 0
           \/ LastRequest.startRecord + LastRequest.returned > Len(catalog)
        /\ celex_found = ExtractCelex(catalog)

\* C8 amended: a walk without a page error ends only on an empty page, with
\* the next offset beyond the total, on a page without total, or once `limit`
\* records have been counted; when every page carried the total it has
\* yielded the identifiers of the first min(len(catalog), limit) entries and
\* no other.
C8_WalkYieldsUpToLimit ==
    WalkDone =>
        /\ \/ LastRequest.returned = 0
           \/ LastRequest.startRecord + LastRequest.returned > Len(catalog)
           \/ noTotal
           \/ total_processed >= limit
        /\ ~noTotal =>
              celex_found = ExtractCelex(SubSeq(catalog, 1, Min(Len(catalog), limit)))

\* a walk stopped by the limit before the last identifier of the catalog
C8_Witness ==
    /\ WalkDone
    /\ ~noTotal
    /\ Len(requests) >= 2
    /\ total_processed = limit
    /\ celex_found # ExtractCelex(catalog)

CeilDiv(a, b) == (a + b - 1) \div b
Max(a, b) == IF a > b THEN a ELSE b

\* the walk of a catalog within the limit, every page served with its total
RegularWalk == WalkDone /\ ~noTotal /\ Len(catalog) <= limit

\* request k starts at 1 + (k-1)P and returns a full page, or what is left
Paged(k) ==
    /\ requests[k].startRecord = 1 + (k - 1) * PAGE_SIZE
    /\ requests[k].returned = Min(PAGE_SIZE, Len(catalog) - (k - 1) * PAGE_SIZE)

\* C9 as claimed: a catalog of T records is walked in exactly ceil(T/P)
\* requests at offsets 1, 1+P, 1+2P, ...
C9_PageCount ==
    RegularWalk =>
        /\ Len(requests) = CeilDiv(Len(catalog), PAGE_SIZE)
        /\ \A k \in 1..Len(requests) : Paged(k)

\* C9 amended: a catalog of T >= 1 records is walked in exactly ceil(T/P)
\* requests at offsets 1, 1+P, 1+2P, ..., each returning a full page but
\* the last, which returns the rest; an empty catalog takes one request, at
\* offset 1, which returns nothing.
C9_PageCountOrOne ==
    RegularWalk =>
        /\ Len(requests) = Max(1, CeilDiv(Len(catalog), PAGE_SIZE))
        /\ \A k \in 1..Len(requests) : Paged(k)

\* three requests, the last page short (as 100, 100, 50 for 250 records)
C9_Witness ==
    /\ RegularWalk
    /\ Len(requests) = 3
    /\ requests[3].returned > 0
    /\ requests[3].returned < PAGE_SIZE

\* C10 as claimed: every Deliver call before the last batch carries exactly
\* BATCH_SIZE Records, the last between 1 and BATCH_SIZE.
C10_FullBatches ==
    (pc = "push" /\ batch_data # <<>>) =>
        /\ Len(batch_data) \in 1..BATCH_SIZE
        /\ i + BATCH_SIZE < Len(celex_to_process) => Len(batch_data) = BATCH_SIZE

\* C10 amended: the identifiers are taken BATCH_SIZE at a time, in order (the
\* last batch takes what remains); what a Deliver call carries is the
\* Records accepted among the identifiers of one batch, in their order: at
\* most BATCH_SIZE, and as many as the batch has identifiers when none of
\* them was skipped.
C10_BatchesOfIdentifiers ==
    pc = "push" =>
        LET last == Min(i + BATCH_SIZE, Len(celex_to_process))
            ids == SubSeq(celex_to_process, i + 1, last)
        IN  /\ i % BATCH_SIZE = 0
            /\ fetchLog = SubSeq(celex_to_process, 1, last)
            /\ batch_data = SelectSeq(ids, LAMBDA c : c \notin skipped)
            /\ Len(batch_data) <= BATCH_SIZE
            /\ Range(ids) \cap skipped = {} => Len(batch_data) = Len(ids)

\* a Deliver call with fewer than BATCH_SIZE Records while identifiers remain
C10_Witness ==
    /\ pc = "push"
    /\ i + BATCH_SIZE < Len(celex_to_process)
    /\ batch_data # <<>>
    /\ Len(batch_data) < BATCH_SIZE

\* fetch_eurlex_content returned a text for the identifier and lines 181-188
\* have dealt with it
Filtered == pc = "push" /\ fpc = "returned" /\ result.ok

\* the number of Records the identifier c has in the batch being built
RecordsOf(c) == Len(SelectSeq(batch_data, LAMBDA d : d = c))

\* C11 as claimed: an extracted text of length below 50 produces no Record,
\* one of length 50 or more produces exactly one Record.
C11_MinLength50 ==
    Filtered =>
        /\ result.len < MIN_CONTENT_LEN => RecordsOf(fetchLog[1]) = 0
        /\ result.len >= MIN_CONTENT_LEN => RecordsOf(fetchLog[1]) = 1

\* C11 amended: an extracted text of length 50 or less produces no Record,
\* one of length 51 or more produces exactly one Record (length 40 gives
\* none, length 60 gives one).
C11_MoreThan50 ==
    Filtered =>
        /\ result.len <= MIN_CONTENT_LEN => RecordsOf(fetchLog[1]) = 0
        /\ result.len > MIN_CONTENT_LEN => RecordsOf(fetchLog[1]) = 1
        /\ skipped = {fetchLog[1]} \ Range(batch_data)

\* a text of exactly 50 characters was fetched and gave no Record
C11_Witness ==
    /\ Filtered
    /\ result.len = MIN_CONTENT_LEN
    /\ batch_data = <<>>

\* every request of the endpoint fails
AlwaysFails == \A a \in 1..RETRY_ATTEMPTS : endpoint.fail[a]

\* the first request of the endpoint that succeeds is request k
SucceedsAt(k) == ~endpoint.fail[k] /\ \A a \in 1..(k - 1) : endpoint.fail[a]

\* get_with_retries has returned (or, with None, fetch_eurlex_content has)
Got == fpc \in {"strip", "returned", "raised"}

\* the number of requests the call has made
Gets == Len(SelectSeq(wire, LAMBDA e : e = "get"))

\* C12: a content fetch against an endpoint that fails on every attempt
\* performs exactly RETRY_ATTEMPTS requests with a wait of RETRY_DELAY
\* between consecutive requests (RETRY_ATTEMPTS - 1 waits, none after the
\* last), then yields None without raising, and its identifier is skipped;
\* a fetch that succeeds on attempt k performs exactly k requests, with a
\* wait before each but the first.
C12_RetryBound ==
    /\ (AlwaysFails /\ Got) =>
          /\ fpc = "returned"
          /\ result = NoContent
          /\ Len(wire) = 2 * RETRY_ATTEMPTS - 1
          /\ \A k \in 1..Len(wire) : wire[k] = IF k % 2 = 1 THEN "get" ELSE "sleep"
          /\ pc = "push" => (batch_data = <<>> /\ skipped = {fetchLog[1]})
    /\ \A k \in 1..RETRY_ATTEMPTS : (SucceedsAt(k) /\ Got) =>
          /\ Gets = k
          /\ Len(wire) = 2 * k - 1
          /\ \A n \in 1..Len(wire) : wire[n] = IF n % 2 = 1 THEN "get" ELSE "sleep"
    /\ Gets <= RETRY_ATTEMPTS

\* every request failed, the call gave None and the identifier was skipped
C12_Witness ==
    /\ AlwaysFails
    /\ fpc = "returned"
    /\ Gets = RETRY_ATTEMPTS
    /\ pc = "push"
    /\ skipped = {1}

\* C13: the checkpoint commit is atomic: after a checkpoint write that
\* failed, and at the load of a run started after the process was
\* terminated, the checkpoint gives the previous durable set: what was
\* loaded at start and every batch committed since is still in it.
C13_AtomicCommit ==
    /\ saveFailed => (loadedAtStart \cup committedIds) \subseteq PersistedSet
    /\ (prev.killed /\ Loaded) => committedBefore \subseteq loadedAtStart

\* C14: a delivery failure ends the run at once: the failing step leaves
\* the checkpoint file and the sink as they were and main is at its end;
\* from then on nothing happens in that run (no fetch, no delivery, no
\* checkpoint write); and unless a checkpoint write failed before, the
\* persisted set holds what was loaded and every batch committed earlier.
C14_PushFailureStopsRun ==
    /\ [][(pushFailedIds = {} /\ pushFailedIds' # {})
            => (pc' = "done" /\ file' = file /\ sink' = sink /\ fetchLog' = fetchLog)]_vars
    /\ [][(pushFailedIds # {} /\ run' = run) => UNCHANGED vars]_vars
    /\ []((pushFailedIds # {} /\ ~saveFailed)
            => (loadedAtStart \cup committedIds) \subseteq PersistedSet)

\* the delivery of the second batch failed after the first was committed
C14_Witness ==
    /\ pushFailedIds # {}
    /\ pc = "done"
    /\ i > 0
    /\ committedIds # {}
    /\ file = JsonFile(loadedAtStart \cup committedIds)

\* C15: a run that stopped because of a discovery error or a delivery
\* error ends with a non-zero outcome, other than the outcome of a run that
\* completed all its batches.
C15_FailureExitsNonZero ==
    (pc = "done" /\ (pageError \/ pushFailedIds # {})) => ExitStatus(ending) # 0

\* the identifiers of the Records delivered to the sink so far, in any run
Delivered == {c \in IdUniverse : deliveries[c] > 0}

\* C16: after every successful checkpoint commit, in whatever run, the
\* persisted set contains the identifier of every Record delivered to the
\* sink so far.
C16_CommitCoversDelivered ==
    [][(pc = "save_dump" /\ file'.kind = "json") => Delivered' \subseteq PersistedSet']_vars

\* C17: loading the checkpoint never stops the run: once the token is there
\* and the login done, the run goes on to discovery whatever the checkpoint
\* file is, with the empty set when the file is missing or cannot be opened
\* or parsed, and with the saved set otherwise.
C17_LoadNeverStops ==
    [][(pc = "start" /\ pc' # "start" /\ ending' # "no_login")
         => /\ pc' = "discover"
            /\ ending' = "running"
            /\ file.kind # "json" => processed_celex' = {}
            /\ file.kind = "json" => processed_celex' = file.ids]_vars

\* a run that found the checkpoint of an earlier run unreadable has walked
\* the catalog
C17_Witness ==
    /\ pc = "harvested"
    /\ requests # <<>>
    /\ file = Corrupt
    /\ loadedAtStart = {}
    /\ committedBefore # {}

\* C18: no outcome of the fetch of one identifier stops the run: whatever
\* fetch_eurlex_content does for an identifier (None after the retries, a
\* text too short, an error in the text extraction), the run is still
\* running afterwards and goes on to the next identifier of the batch, or
\* to the push when the identifier was the last of its batch.
C18_FetchNeverStops ==
    [][(pc = "fetch" /\ fetchLog' # fetchLog)
         => /\ ending' = "running"
            /\ j' = j + 1
            /\ pc' = IF j + 1 < Len(batch) THEN "fetch" ELSE "push"]_vars

\* some identifier is listed by more than one entry of the catalog
Repeats(cat) == \E a, b \in 1..Len(cat) : a # b /\ cat[a] = cat[b] /\ cat[a] # 0

\* C19: within one run, no identifier of the set loaded at start is given
\* to fetch_eurlex_content, and no identifier is given to it twice, also
\* when the catalog lists an identifier in several entries or pages.
C19_FetchedAtMostOnce ==
    /\ Range(fetchLog) \cap loadedAtStart = {}
    /\ \A a, b \in 1..Len(fetchLog) : fetchLog[a] = fetchLog[b] => a = b

\* a run over a catalog that lists an identifier twice has loaded that
\* identifier from the checkpoint and has fetched the others
C19_Witness ==
    /\ Repeats(catalog)
    /\ loadedAtStart # {}
    /\ \E k \in 1..Len(catalog) : \E n \in 1..Len(catalog) :
          k # n /\ catalog[k] = catalog[n] /\ catalog[k] \in loadedAtStart
    /\ fetchLog # <<>>
    /\ ending = "finished"

\* C20: every run terminates, whatever the page responses, the contents
\* fetched, and the outcomes of the pushes and of the checkpoint writes:
\* main reaches its end; the discovery loop counts at most `limit` records
\* and makes at most `limit` requests, each iteration leaving the loop or
\* counting at least one record; main fetches each identifier of its list
\* at most once, at most GLOBAL_RUN_LIMIT in all.
C20_RunTerminates ==
    /\ <>(pc = "done")
    /\ [](/\ total_processed <= limit
          /\ Len(requests) <= limit
          /\ Len(fetchLog) <= Len(celex_to_process)
          /\ Len(celex_to_process) <= GLOBAL_RUN_LIMIT
          /\ i <= Len(celex_to_process))
    /\ [][(pc = "discover" /\ pc' = "discover") => total_processed' > total_processed]_vars
    /\ [][pc = "fetch" => Len(fetchLog') = Len(fetchLog) + 1]_vars

\* main has ended after a walk that the limit stopped, and after a failed
\* checkpoint write
C20_Witness ==
    /\ pc = "done"
    /\ ending = "finished"
    /\ Len(catalog) > limit
    /\ total_processed = limit
    /\ Len(requests) >= 2
    /\ saveFailed
    /\ skipped # {}

====
